---------------------------- MODULE Spec2Model ----------------------------
(***************************************************************************)
(* A model of src/australia.py: the relocation of animals over the         *)
(* Australian states (relocate_animals) and FictionalAnimal.set_state.      *)
(*                                                                         *)
(* Names of animals are only ever compared for equality, so a name is a     *)
(* natural number; the threat 0 is a threat string that is the name of no   *)
(* animal of the list.  One step of Spec is one iteration of the inner loop  *)
(* of relocate_animals (lines 132-168).                                     *)
(***************************************************************************)
EXTENDS Naturals, Sequences, FiniteSets

VARIABLES
    animals,          \* the list passed to relocate_animals: records name, threat, state
    occupied_states,  \* line 127: state -> index (in animals) of the animal placed there
    placed_animals,   \* line 128: names of the animals already relocated
    si,               \* position of `for state in VALID_STATES` (Len + 1: loop over)
    ai,               \* position of `for animal in animals` (Len + 1: loop over)
    tried,            \* history: <<state, index>> that got past lines 134-139
    rejected,         \* history: <<state, index, check>> that hit `continue` at 152 / 162
    run,              \* which call of relocate_animals this is (1 or 2)
    first,            \* the states the first call ended with
    call              \* the last set_state call made directly: <<index, argument>>

vars == <<animals, occupied_states, placed_animals, si, ai, tried, rejected,
          run, first, call>>

---------------------------------------------------------------------------
(* Bounds of the model *)

\* longest list with pairwise distinct names, threats drawn freely
MaxAnimals == 4

\* longest list in which names may repeat, threats drawn freely
MaxRepeated == 3

\* longest list of animals with distinct names and no threat among them
MaxLong == 8

\* longest list in the specification of direct set_state calls
MaxSetState == 2

---------------------------------------------------------------------------
(* The module-level tables, lines 17-28 *)

ADJACENT_STATES_VicSaDropped ==
    [NSW |-> <<"QLD", "VIC", "SA">>,
     QLD |-> <<"NSW", "NT", "SA">>,
     VIC |-> <<"NSW">>,
     TAS |-> <<>>,
     SA  |-> <<"WA", "NT", "QLD", "NSW", "VIC">>,
     NT  |-> <<"WA", "QLD", "SA">>,
     WA  |-> <<"NT", "SA">>]

ADJACENT_STATES ==
    [NSW |-> <<"QLD", "VIC", "SA">>,
     QLD |-> <<"NSW", "NT", "SA">>,
     VIC |-> <<"NSW", "SA">>,
     TAS |-> <<>>,
     SA  |-> <<"WA", "NT", "QLD", "NSW", "VIC">>,
     NT  |-> <<"WA", "QLD", "SA">>,
     WA  |-> <<"NT", "SA">>]

VALID_STATES == <<"NSW", "QLD", "VIC", "TAS", "SA", "NT", "WA">>

\* `x in VALID_STATES`
InValidStates(x) == \E k \in 1..Len(VALID_STATES) : VALID_STATES[k] = x

ValidSet == {VALID_STATES[k] : k \in 1..Len(VALID_STATES)}

\* arguments a caller may hand to set_state: the valid states, the start
\* state, an unknown string and the empty string
StateInputs == ValidSet \cup {"ACT", "XYZ", ""}

---------------------------------------------------------------------------
(* class FictionalAnimal *)

\* __init__, lines 44-52
FictionalAnimal(name, threat) == [name |-> name, threat |-> threat, state |-> "ACT"]

set_state_Unchecked(animal, state) == [animal EXCEPT !.state = state]

\* set_state, lines 60-68
set_state(animal, state) ==
    IF InValidStates(state) THEN [animal EXCEPT !.state = state] ELSE animal

\* get_state, lines 55-57
get_state(animal) == animal.state

---------------------------------------------------------------------------
(* relocate_animals, lines 119-168 *)

EmptyMap == [s \in {} |-> 0]

Enter_Persistent(occ, placed) == [occupied_states |-> occ, placed_animals |-> placed]

\* lines 127-128: the locals of a call
Enter(occ, placed) == [occupied_states |-> EmptyMap, placed_animals |-> {}]

AlreadyPlaced_Never(animal, placed) == FALSE

\* line 134
AlreadyPlaced(animal, placed) == animal.name \in placed

\* line 138
StateTaken(state, occ) == state \in DOMAIN occ

Adjacent_Everywhere(state) ==
    SelectSeq(VALID_STATES, LAMBDA t : t # state)

\* line 142
Adjacent(state) == ADJACENT_STATES[state]

ForwardConflict_Never(list, occ, animal, state) == FALSE

ForwardConflict_AnyNeighbour(list, occ, animal, state) ==
    \E k \in 1..Len(Adjacent(state)) : Adjacent(state)[k] \in DOMAIN occ

\* lines 146-150: the animal's threat is already in an adjacent state
ForwardConflict(list, occ, animal, state) ==
    \E k \in 1..Len(Adjacent(state)) :
        LET adj == Adjacent(state)[k] IN
        /\ adj \in DOMAIN occ
        /\ list[occ[adj]].name = animal.threat

ReverseConflict_Never(list, occ, animal, state) == FALSE

ReverseConflict_AnyNeighbour(list, occ, animal, state) ==
    \E k \in 1..Len(Adjacent(state)) : Adjacent(state)[k] \in DOMAIN occ

\* lines 155-160: a neighbour's threat is this animal
ReverseConflict(list, occ, animal, state) ==
    \E k \in 1..Len(Adjacent(state)) :
        LET adj == Adjacent(state)[k] IN
        /\ adj \in DOMAIN occ
        /\ list[occ[adj]].threat = animal.name

InLoops == si <= Len(VALID_STATES) /\ ai <= Len(animals)

Finished == si > Len(VALID_STATES)

\* lines 134-135: `continue` on an animal already placed
SkipPlaced ==
    /\ InLoops
    /\ AlreadyPlaced(animals[ai], placed_animals)
    /\ ai' = ai + 1
    /\ UNCHANGED <<animals, occupied_states, placed_animals, si, tried, rejected,
                   run, first, call>>

\* the candidate of this iteration got past lines 134-139
Candidate ==
    /\ InLoops
    /\ ~AlreadyPlaced(animals[ai], placed_animals)
    /\ ~StateTaken(VALID_STATES[si], occupied_states)

\* lines 141-162: a conflict, `continue` at line 152 or 162
Conflict ==
    /\ Candidate
    /\ LET state == VALID_STATES[si]
           fwd == ForwardConflict(animals, occupied_states, animals[ai], state)
           rev == ReverseConflict(animals, occupied_states, animals[ai], state)
       IN  /\ fwd \/ rev
           /\ rejected' = rejected \cup
                 {<<state, ai, IF fwd THEN "forward" ELSE "reverse">>}
           /\ tried' = tried \cup {<<state, ai>>}
    /\ ai' = ai + 1
    /\ UNCHANGED <<animals, occupied_states, placed_animals, si, run, first, call>>

PlacedNames_Forgotten(placed, animal) == placed

\* line 167
PlacedNames(placed, animal) == placed \cup {animal.name}

\* lines 164-168: no conflict, the animal is placed and the inner loop breaks
Place ==
    /\ Candidate
    /\ LET state == VALID_STATES[si] IN
       /\ ~ForwardConflict(animals, occupied_states, animals[ai], state)
       /\ ~ReverseConflict(animals, occupied_states, animals[ai], state)
       /\ animals' = [animals EXCEPT ![ai] = set_state(@, state)]
       /\ occupied_states' =
             [s \in DOMAIN occupied_states \cup {state} |->
                 IF s = state THEN ai ELSE occupied_states[s]]
       /\ placed_animals' = PlacedNames(placed_animals, animals[ai])
       /\ tried' = tried \cup {<<state, ai>>}
    /\ si' = si + 1
    /\ ai' = 1
    /\ UNCHANGED <<rejected, run, first, call>>

\* the inner loop is over: the list is exhausted, or line 138-139 breaks
InnerLoopOver ==
    IF ai > Len(animals) THEN TRUE
    ELSE /\ ~AlreadyPlaced(animals[ai], placed_animals)
         /\ StateTaken(VALID_STATES[si], occupied_states)

\* line 131: on to the next state
NextState ==
    /\ si <= Len(VALID_STATES)
    /\ InnerLoopOver
    /\ si' = si + 1
    /\ ai' = 1
    /\ UNCHANGED <<animals, occupied_states, placed_animals, tried, rejected,
                   run, first, call>>

\* The caller builds the same animals again (__init__: every state 'ACT') and
\* calls relocate_animals a second time.
SecondCall ==
    /\ Finished
    /\ run = 1
    /\ run' = 2
    /\ first' = [i \in 1..Len(animals) |-> get_state(animals[i])]
    /\ animals' = [i \in 1..Len(animals) |->
                      FictionalAnimal(animals[i].name, animals[i].threat)]
    /\ LET e == Enter(occupied_states, placed_animals) IN
       /\ occupied_states' = e.occupied_states
       /\ placed_animals' = e.placed_animals
    /\ si' = 1
    /\ ai' = 1
    /\ tried' = {}
    /\ rejected' = {}
    /\ UNCHANGED call

---------------------------------------------------------------------------
(* The lists relocate_animals is run on *)

MaxOf(S) == IF S = {} THEN 0 ELSE CHOOSE m \in S : \A x \in S : x <= m

\* names up to renaming: a new name is the least unused number
Canonical(nm) ==
    \A i \in DOMAIN nm : nm[i] <= MaxOf({nm[j] : j \in 1..(i - 1)}) + 1

NameLists(n) == {nm \in [1..n -> 1..n] : Canonical(nm)}

\* a list of n animals: names (repeated or not) and threats drawn freely up to
\* MaxRepeated, distinct names and threats drawn freely up to MaxAnimals,
\* distinct names and no threat among them beyond
IsInputList(list, n) ==
    \/ /\ n <= MaxRepeated
       /\ \E nm \in NameLists(n) :
             \E th \in [1..n -> 0..MaxOf({nm[j] : j \in 1..n})] :
                 list = [i \in 1..n |-> FictionalAnimal(nm[i], th[i])]
    \/ /\ n <= MaxAnimals
       /\ \E th \in [1..n -> 0..n] :
             list = [i \in 1..n |-> FictionalAnimal(i, th[i])]
    \/ /\ n > MaxAnimals
       /\ list = [i \in 1..n |-> FictionalAnimal(i, 0)]

Init ==
    /\ \E n \in 0..MaxLong : IsInputList(animals, n)
    /\ occupied_states = EmptyMap
    /\ placed_animals = {}
    /\ si = 1
    /\ ai = 1
    /\ tried = {}
    /\ rejected = {}
    /\ run = 1
    /\ first = <<>>
    /\ call = <<0, "ACT">>

Next == SkipPlaced \/ Conflict \/ Place \/ NextState \/ SecondCall

Spec == Init /\ [][Next]_vars

---------------------------------------------------------------------------
(* Direct calls of set_state on the animals of a list *)

SetStateCall ==
    \E i \in 1..Len(animals), x \in StateInputs :
        /\ animals' = [animals EXCEPT ![i] = set_state(@, x)]
        /\ call' = <<i, x>>
        /\ UNCHANGED <<occupied_states, placed_animals, si, ai, tried, rejected,
                       run, first>>

InitSetState ==
    /\ \E n \in 1..MaxSetState :
           \E nm \in NameLists(n) :
               animals = [i \in 1..n |-> FictionalAnimal(nm[i], 0)]
    /\ occupied_states = EmptyMap
    /\ placed_animals = {}
    /\ si = 1
    /\ ai = 1
    /\ tried = {}
    /\ rejected = {}
    /\ run = 1
    /\ first = <<>>
    /\ call = <<0, "ACT">>

SpecSetState == InitSetState /\ [][SetStateCall]_vars

---------------------------------------------------------------------------
(* Vocabulary of the properties *)

Indices == 1..Len(animals)

StateOf(i) == animals[i].state

Placed(i) == StateOf(i) # "ACT"

\* t is listed in ADJACENT_STATES[s]
Listed(s, t) == \E k \in 1..Len(ADJACENT_STATES[s]) : ADJACENT_STATES[s][k] = t

IndexOfState(s) == CHOOSE k \in 1..Len(VALID_STATES) : VALID_STATES[k] = s

DistinctNames == \A i, j \in Indices : i # j => animals[i].name # animals[j].name

\* the threat of animal i is the name of no animal of the list
Threatless(i) == \A j \in Indices : animals[j].name # animals[i].threat

NoThreatRelation == \A i \in Indices : Threatless(i)

\* animal i and the occupant of t are a threat to one another
Rivals(i, t) ==
    \/ animals[occupied_states[t]].name = animals[i].threat
    \/ animals[occupied_states[t]].threat = animals[i].name

Occupied == DOMAIN occupied_states

---------------------------------------------------------------------------
(* C1: in every state of a pass over a list with pairwise distinct names,   *)
(* two occupied states of which one is listed as adjacent to the other hold  *)
(* animals neither of which has the other as its threat.                     *)
C1_NoAdjacentThreat ==
    DistinctNames =>
        \A s, t \in Occupied :
            Listed(s, t) =>
                /\ animals[occupied_states[s]].threat # animals[occupied_states[t]].name
                /\ animals[occupied_states[t]].threat # animals[occupied_states[s]].name

\* a finished pass that placed two animals of which one threatens the other,
\* with two adjacent states occupied
C1_Witness ==
    /\ Finished
    /\ DistinctNames
    /\ \E s, t \in Occupied : Listed(s, t)
    /\ \E s, t \in Occupied :
          s # t /\ animals[occupied_states[s]].threat = animals[occupied_states[t]].name

(* C2: no two animals hold the same state other than 'ACT', and an animal    *)
(* has the state s of VALID_STATES exactly when occupied_states[s] is it.    *)
C2_OneAnimalPerState ==
    /\ \A i, j \in Indices : (i # j /\ Placed(i)) => StateOf(i) # StateOf(j)
    /\ \A i \in Indices : \A s \in ValidSet :
          (StateOf(i) = s) <=> (s \in Occupied /\ occupied_states[s] = i)

\* a finished pass with several states occupied and an animal left in 'ACT'
C2_Witness ==
    /\ Finished
    /\ Cardinality(Occupied) >= 3
    /\ \E i \in Indices : ~Placed(i)

(* C3: within one call an animal's state changes only from 'ACT' to a        *)
(* member of VALID_STATES (so at most once), and an occupied state keeps      *)
(* its occupant.                                                             *)
C3_PlacedOnce ==
    [][run' = run =>
          /\ \A i \in Indices :
                animals'[i].state # animals[i].state =>
                    animals[i].state = "ACT" /\ animals'[i].state \in ValidSet
          /\ \A s \in Occupied :
                s \in DOMAIN occupied_states' /\ occupied_states'[s] = occupied_states[s]
      ]_vars

\* the animal placed in NSW is still there when the pass ends, after others
\* were placed
C3_Witness ==
    /\ Finished
    /\ Cardinality(Occupied) >= 3
    /\ "NSW" \in Occupied
    /\ StateOf(occupied_states["NSW"]) = "NSW"

(* C4: a second call on the same animals, every state back to 'ACT', ends     *)
(* with the state the first call gave each animal.                           *)
C4_Deterministic ==
    (run = 2 /\ Finished) => \A i \in Indices : StateOf(i) = first[i]

\* the second call is over, with animals placed and an animal left in 'ACT'
C4_Witness ==
    /\ run = 2
    /\ Finished
    /\ \E i \in Indices : Placed(i)
    /\ \E i \in Indices : ~Placed(i)

\* the list is [A, B] with distinct names, one the threat of the other
TwoRivals ==
    /\ Len(animals) = 2
    /\ animals[1].name # animals[2].name
    /\ animals[1].threat = animals[2].name \/ animals[2].threat = animals[1].name

\* Koala (threat Dingo), Dingo (threat: no animal of the list)
KoalaDingo ==
    /\ Len(animals) = 2
    /\ animals[1].name # animals[2].name
    /\ animals[1].threat = animals[2].name
    /\ Threatless(2)

RejectedAt(s, i) == \E c \in {"forward", "reverse"} : <<s, i, c>> \in rejected

(* C5: on a list [A, B] of two rivals, A is placed at NSW, B is rejected at   *)
(* QLD and at VIC and placed at TAS; Koala and Dingo end in NSW and TAS,      *)
(* Dingo rejected by the reverse check.                                      *)
C5_TwoRivals ==
    /\ TwoRivals =>
          /\ si > 1 => StateOf(1) = "NSW"
          /\ si > 2 => RejectedAt("QLD", 2)
          /\ si > 3 => RejectedAt("VIC", 2)
          /\ si <= 4 => StateOf(2) = "ACT"
          /\ si > 4 => StateOf(2) = "TAS"
          /\ Finished => StateOf(1) = "NSW" /\ StateOf(2) = "TAS"
    /\ (KoalaDingo /\ Finished) =>
          /\ StateOf(1) = "NSW" /\ StateOf(2) = "TAS"
          /\ rejected = {<<"QLD", 2, "reverse">>, <<"VIC", 2, "reverse">>}

\* the pass over two rivals is over, B having been rejected twice
C5_Witness ==
    /\ TwoRivals
    /\ Finished
    /\ animals[2].threat = animals[1].name
    /\ Cardinality(rejected) = 2
    /\ StateOf(2) = "TAS"

(* C6: on a list of at most 7 animals with distinct names and no threat       *)
(* relation no conflict is ever found, and the pass ends with the k-th        *)
(* animal in the k-th state of VALID_STATES.                                  *)
C6_NoThreatsAllPlaced ==
    (DistinctNames /\ Len(animals) <= 7 /\ NoThreatRelation) =>
        /\ rejected = {}
        /\ Finished => \A k \in Indices : StateOf(k) = VALID_STATES[k]

\* seven animals without threats, all placed
C6_Witness ==
    /\ Finished
    /\ Len(animals) = 7
    /\ DistinctNames
    /\ NoThreatRelation
    /\ \A k \in Indices : Placed(k)

\* an occupied state listed as adjacent to the k-th state and before it in
\* VALID_STATES holds an animal whose threat is animal i. (While the k-th
\* state is scanned, the occupied states are states before it.)
ReverseBlocked(i, k) ==
    \E t \in Occupied :
        /\ Listed(VALID_STATES[k], t)
        /\ IndexOfState(t) < k
        /\ animals[occupied_states[t]].threat = animals[i].name

\* the states at which the scan reached animal i with the state unoccupied
\* and no neighbour's threat being i
Available(i) ==
    {k \in 1..Len(VALID_STATES) :
        <<VALID_STATES[k], i>> \in tried /\ ~ReverseBlocked(i, k)}

LeastOf(S) == CHOOSE m \in S : \A x \in S : m <= x

(* C7: an animal whose threat is the name of no animal of the list is never   *)
(* rejected by the forward check, and its state is the first state of         *)
(* VALID_STATES at which the scan reached it with the state unoccupied and    *)
(* no occupied adjacent state holding an animal whose threat it is ('ACT'     *)
(* while there is no such state).                                            *)
C7_ThreatlessFirstFit ==
    \A i \in Indices :
        Threatless(i) =>
            /\ \A s \in ValidSet : <<s, i, "forward">> \notin rejected
            /\ IF Available(i) = {} THEN StateOf(i) = "ACT"
               ELSE StateOf(i) = VALID_STATES[LeastOf(Available(i))]

\* a finished pass in which an animal without a threat in the list was
\* rejected by the reverse check and placed later
C7_Witness ==
    /\ Finished
    /\ \E i \in Indices :
          /\ Threatless(i)
          /\ \E s \in ValidSet : <<s, i, "reverse">> \in rejected
          /\ Placed(i)
          /\ StateOf(i) # "TAS"

(* C8: set_state(x) leaves the animal as it was when x is not in              *)
(* VALID_STATES and sets its state to x when it is, and touches no other      *)
(* animal; so every animal's state is 'ACT' or a member of VALID_STATES.      *)
C8_SetStateGuard ==
    /\ [][LET i == call'[1]
              x == call'[2]
          IN  /\ Len(animals') = Len(animals)
              /\ animals'[i].state = (IF x \in ValidSet THEN x ELSE animals[i].state)
              /\ animals'[i].name = animals[i].name
              /\ animals'[i].threat = animals[i].threat
              /\ \A j \in Indices : j # i => animals'[j] = animals[j]
         ]_vars
    /\ [](\A i \in Indices : StateOf(i) \in ValidSet \cup {"ACT"})

\* an animal moved to NSW has just been handed an unknown state, another
\* animal of the list being in WA
C8_Witness ==
    /\ call[2] = "XYZ"
    /\ call[1] \in Indices
    /\ StateOf(call[1]) = "NSW"
    /\ \E j \in Indices : StateOf(j) = "WA"

\* the states whose list of adjacent states the pass has read (line 142) or
\* is about to read
ScannedStates == {VALID_STATES[k] : k \in 1..(IF Finished THEN Len(VALID_STATES) ELSE si)}

(* C9, as stated: the table is asymmetric for at least one pair: when the     *)
(* pass has read every entry, some state t is listed in ADJACENT_STATES[s]    *)
(* while s is not listed in ADJACENT_STATES[t].                               *)
C9_Asymmetric ==
    Finished => \E s \in ScannedStates : \E t \in ValidSet : Listed(s, t) /\ ~Listed(t, s)

(* C9, amended: ADJACENT_STATES has an entry for exactly the states of        *)
(* VALID_STATES, and every entry the pass reads lists only such states and    *)
(* is symmetric: t is listed in ADJACENT_STATES[s] exactly when s is listed   *)
(* in ADJACENT_STATES[t].                                                     *)
C9_Symmetric ==
    /\ DOMAIN ADJACENT_STATES = ValidSet
    /\ \A s \in ScannedStates :
          /\ \A k \in 1..Len(ADJACENT_STATES[s]) : ADJACENT_STATES[s][k] \in ValidSet
          /\ \A t \in ValidSet : Listed(s, t) <=> Listed(t, s)

\* a finished pass in which an animal was rejected at a state because of a
\* rival in a state that lists it and is listed by it
C9_Witness ==
    /\ Finished
    /\ \E i \in Indices : \E s \in ValidSet : \E t \in Occupied :
          /\ RejectedAt(s, i)
          /\ Listed(s, t) /\ Listed(t, s)
          /\ Rivals(i, t)

(* C10: when the pass over a list with distinct names is over, every animal   *)
(* still in 'ACT' would conflict in every unoccupied state: an occupied       *)
(* state listed as adjacent to it holds the animal's threat or an animal      *)
(* whose threat it is.                                                       *)
C10_Maximal ==
    (Finished /\ DistinctNames) =>
        \A i \in Indices : \A s \in ValidSet :
            (~Placed(i) /\ s \notin Occupied) =>
                \E t \in Occupied : Listed(s, t) /\ Rivals(i, t)

\* a finished pass that left an animal in 'ACT' and a state unoccupied
C10_Witness ==
    /\ Finished
    /\ DistinctNames
    /\ \E i \in Indices : ~Placed(i)
    /\ \E s \in ValidSet : s \notin Occupied

=============================================================================
